---- MODULE Spec2Model ----
(***************************************************************************)
(* Model of the value-to-storage bridge of go-hdf5: Attribute (h5a.go and  *)
(* the second Attribute implementation, part_000) and Dataset (h5d.go).    *)
(*                                                                         *)
(* One record (an attribute or a dataset) is open behind one handle.  An   *)
(* action is one whole call on that handle: Read, Write, ReadSubset,       *)
(* WriteSubset, Close or the finalizer.  The caller's data is an input of  *)
(* the call; the outcome of the call (error, data after the call, what     *)
(* the call asked of the store) is kept in `last`.                         *)
(***************************************************************************)
EXTENDS Integers, Sequences, FiniteSets, TLC

VARIABLES rec, h, openTypes, written, last

vars == <<rec, h, openTypes, written, last>>

\* ---------------------------------------------------------------- bounds
\* longest pointer chain handed to a call
MaxDepth == 3
\* longest text, of a caller and of a record
MaxLen == 3
\* most elements of a numeric record, of an array, of a slice's backing store
MaxCount == 2
\* most elements a proper (non-nil) dataspace selects
MaxSel == 1
\* most storage-type handles left open that the model counts
MaxOpen == 1

\* ------------------------------------------------------- in-process values
NumKinds == {"int32", "float64"}
\* 0 is the NUL padding character
Chars == {0, 1}

Strs == UNION {[1..n -> Chars] : n \in 0..MaxLen}

\* A value: shape, element kind, the cells of its storage (for a slice the
\* whole backing array, so Len(elems) is the capacity), its length, and the
\* identity of the backing store (0 = nil, 1 = the caller's, 2 = freshly
\* allocated by the call).
Value(shape, kind, elems, len, bid) ==
    [shape |-> shape, kind |-> kind, elems |-> elems, len |-> len, bid |-> bid]

\* cells 1..n: all zero (f = 0) or 1, 2, .., n
Cells(n, f) == [i \in 1..n |-> IF f = 0 THEN 0 ELSE i]

\* "struct" stands for every kind without a storage mapping
ScalarVals == {Value("scalar", k, Cells(1, f), 1, 1) : k \in NumKinds, f \in {0, 1}}
              \cup {Value("scalar", "struct", Cells(1, 1), 1, 1)}
ArrayVals == {Value("array", k, Cells(n, f), n, 1) :
                 k \in NumKinds, n \in 0..MaxCount, f \in {0, 1}}
SliceVals == UNION {{Value("slice", k, Cells(c, 1), l, 1) : l \in 0..c} :
                       k \in NumKinds, c \in 0..MaxCount}
NilSlices == {Value("slice", k, <<>>, 0, 0) : k \in NumKinds}
\* the texts of a caller: those without NUL at either end
StringVals == {Value("string", "string", s, Len(s), 1) :
                  s \in {t \in Strs : t = <<>> \/ (t[1] # 0 /\ t[Len(t)] # 0)}}
Vals == ScalarVals \cup ArrayVals \cup SliceVals \cup NilSlices \cup StringVals

\* the values tried behind longer pointer chains and without a pointer
DeepVals == {Value("scalar", "int32", Cells(1, 1), 1, 1),
             Value("array", "int32", Cells(0, 1), 0, 1),
             Value("array", "int32", Cells(MaxCount, 1), MaxCount, 1),
             Value("slice", "int32", Cells(MaxCount, 1), 0, 1),
             Value("string", "string", Cells(1, 1), 1, 1)}

NilVal == Value("nil", "nil", <<>>, 0, 0)

\* What a call is handed: a chain of `depth` pointers ending in val (depth 0:
\* val itself, no pointer), or, with isnil, a chain whose last pointer is nil.
Dests == {[depth |-> 1, isnil |-> FALSE, val |-> v] : v \in Vals}
         \cup {[depth |-> n, isnil |-> FALSE, val |-> v] :
                  n \in {0} \cup 2..MaxDepth, v \in DeepVals}
         \cup {[depth |-> n, isnil |-> TRUE, val |-> NilVal] : n \in 1..MaxDepth}

\* what the caller sees of a value
Visible(v) == SubSeq(v.elems, 1, v.len)

\* the zero value of v's type
Zero(v) ==
    CASE v.shape = "slice" -> Value("slice", v.kind, <<>>, 0, 0)
      [] v.shape = "string" -> Value("string", "string", <<>>, 0, 1)
      [] OTHER -> Value(v.shape, v.kind, Cells(Len(v.elems), 0), v.len, 1)

\* ------------------------------------------------------------ storage types
\* A storage type is its class and its byte size; a text type of the store has
\* the size of the text, the text type derived from an in-process string is
\* of variable length (size 0).
StorageType(class, size) == [class |-> class, size |-> size]

\* NewDataTypeFromType: the storage type derived from an in-process type.
\* For an array or a slice the callers of Read pass the element type.
NewDataTypeFromType(kind) ==
    CASE kind = "int32" -> [err |-> FALSE, typ |-> StorageType("H5T_INTEGER", 4)]
      [] kind = "float64" -> [err |-> FALSE, typ |-> StorageType("H5T_FLOAT", 8)]
      [] kind = "string" -> [err |-> FALSE, typ |-> StorageType("H5T_STRING", 0)]
      [] OTHER -> [err |-> TRUE, typ |-> StorageType("nil", 0)]

\* Datatype.GoType: the in-process kind of a storage type
GoType(typ) ==
    CASE typ.class = "H5T_INTEGER" -> "int32"
      [] typ.class = "H5T_FLOAT" -> "float64"
      [] typ.class = "H5T_STRING" -> "string"
      [] OTHER -> "invalid"

\* Datatype.Size
Size(typ) == typ.size

\* ------------------------------------------------------------------ store
\* A record of the store: which implementation wraps it ("h5a": Attribute of
\* h5a.go, "part0": Attribute of part_000, "h5d": Dataset), its on-disk type,
\* and its elements (the characters, for a text record).
Record(k, typ, disk) == [k |-> k, typ |-> typ, disk |-> disk]

Wrappers == {"h5a", "part0", "h5d"}

\* the elements a numeric record holds when it is opened: none of them a
\* value of the caller's
DiskCells(n) == [i \in 1..n |-> MaxCount + i]

\* The records a handle is opened on: numeric ones of every count, and texts
\* of every size, NUL-filled as the store creates them.
Records ==
    {Record(k, NewDataTypeFromType(kd).typ, DiskCells(n)) :
        k \in Wrappers, kd \in NumKinds, n \in 0..MaxCount}
    \cup {Record(k, StorageType("H5T_STRING", n), [i \in 1..n |-> 0]) :
             k \in Wrappers, n \in 0..MaxLen}

IsText(typ) == typ.class = "H5T_STRING"

\* H5Aget_type, H5Dget_type: a copy of the record's on-disk type
H5get_type(r) == r.typ

\* H5Aget_storage_size: the bytes the record's data occupies
H5Aget_storage_size(r) ==
    IF IsText(r.typ) THEN Len(r.disk) ELSE Len(r.disk) * Size(r.typ)

\* the store converts between the numeric classes, and between texts, and
\* between nothing else
Convertible(a, b) == IsText(a) = IsText(b) /\ a.class # "nil" /\ b.class # "nil"

\* What the store may answer and what lies in memory outside the caller's
\* data: rc is the status the store gives a transfer it can do (0 or -1), and
\* mem[i] is the content of the i-th cell of memory that is not the caller's.
\* An action draws them with OraclesFor.
Mems == [1..MaxLen -> Chars]

\* the elements a transfer moves: all of them under a nil dataspace (space
\* 0), the first `space` of them otherwise
Selected(r, space) == IF space = 0 THEN Len(r.disk) ELSE space

\* H5Aread, H5Dread into the cells at an address: the selected elements
\* overwrite the first cells; elements beyond the cells overrun them.
\* A null address, a failing store and types the store cannot convert give
\* status -1 and leave the cells alone.
RawRead(r, memtyp, addr, cells, space, o) ==
    LET n == Selected(r, space)
    IN  IF o.rc # 0 \/ addr = "null" \/ ~Convertible(r.typ, memtyp) \/ n > Len(r.disk)
        THEN [status |-> -1, cells |-> cells, overrun |-> FALSE]
        ELSE [status |-> 0,
              cells |-> [i \in 1..Len(cells) |-> IF i <= n THEN r.disk[i] ELSE cells[i]],
              overrun |-> n > Len(cells)]

\* H5Awrite, H5Dwrite from the cells at an address: the store takes the
\* selected number of elements; where the cells end it reads on into memory
\* that is not the caller's.
RawWrite(r, memtyp, addr, cells, space, o) ==
    LET n == Selected(r, space)
    IN  IF o.rc # 0 \/ addr = "null" \/ ~Convertible(r.typ, memtyp) \/ n > Len(r.disk)
        THEN [status |-> -1, disk |-> r.disk, overrun |-> FALSE]
        ELSE [status |-> 0,
              disk |-> [i \in 1..Len(r.disk) |->
                          IF i > n THEN r.disk[i]
                          ELSE IF i <= Len(cells) THEN cells[i] ELSE o.mem[i]],
              overrun |-> n > Len(cells)]

\* ------------------------------------------------------- outcome of a call
\* res: "ok" (a nil error), "InvalidTarget", "TypeMismatch", "UnsupportedType",
\*      "StoreError" or "panic";
\* val: the caller's value after the call; disk: the record's elements after it;
\* tq, sq: queries of the record's type and of its storage size;
\* opened, closed: storage-type handles the call obtained and closed;
\* transfers: raw transfers invoked; addr: the address given to the last one
\*      ("value": the final value, "data": the backing store of a slice or the
\*      characters of a string, "header": a string or slice header, "ptr": a
\*      pointer variable of the chain, "null", or "none");
\* buf, got: the text buffer handed to the raw transfer and the buffer after it;
\* overrun: the transfer went beyond the cells at addr.
Ret(r, d, res) ==
    [res |-> res, val |-> d.val, disk |-> r.disk, tq |-> 0, sq |-> 0,
     opened |-> 0, closed |-> 0, transfers |-> 0, addr |-> "none",
     buf |-> <<>>, got |-> <<>>, overrun |-> FALSE]

\* h5err: a nil error for status 0
h5err(status) == IF status = 0 THEN "ok" ELSE "StoreError"

\* reflect.Indirect(v).Interface(): one pointer of the chain less
Indirect(d) == [d EXCEPT !.depth = @ - 1]

\* a check that forgets v.IsNil()
NotPtrOnly(d) == d.depth = 0

\* v.Kind() != reflect.Ptr || v.IsNil()
NotPtrOrNil(d) == d.depth = 0 \/ (d.depth = 1 /\ d.isnil)

\* strings.TrimLeft(s, "\x00")
RECURSIVE TrimLeft(_)
TrimLeft(s) == IF s # <<>> /\ Head(s) = 0 THEN TrimLeft(Tail(s)) ELSE s

\* strings.TrimRight(s, "\x00")
RECURSIVE TrimRight(_)
TrimRight(s) ==
    IF s # <<>> /\ s[Len(s)] = 0 THEN TrimRight(SubSeq(s, 1, Len(s) - 1)) ELSE s

\* a trim of the trailing padding alone
TrimTrailingOnly(s) == TrimRight(s)

\* strings.Trim(s, "\x00")
Trim(s) == TrimRight(TrimLeft(s))

\* strings.Repeat("\x00", ln)
Repeat(ln) == [i \in 1..ln |-> 0]

\* v.Elem().SetString(s)
SetString(v, s) == [v EXCEPT !.elems = s, !.len = Len(s)]

\* a resize that compares with Len() where the code compares with Cap()
ResizeByLen(v, ln) ==
    IF ln <= v.len
    THEN [v EXCEPT !.len = ln]
    ELSE [v EXCEPT !.elems = [i \in 1..ln |-> 0], !.len = ln, !.bid = 2]

\* The slice case of Attribute.Read: SetLen(ln) on the existing backing store
\* when ln <= Cap(), a fresh slice of length and capacity ln otherwise.
Resize(v, ln) ==
    IF ln <= Len(v.elems)
    THEN [v EXCEPT !.len = ln]
    ELSE [v EXCEPT !.elems = Repeat(ln), !.len = ln, !.bid = 2]

\* SliceHeader.Data, StringHeader.Data: the address of the backing store, 0
\* for a nil slice
DataAddr(v) == IF v.bid = 0 THEN "null" ELSE "data"

\* The text buffer of Attribute.Read: the first ln characters of the
\* destination when it has them, ln NULs otherwise.
TextBuf(v, ln) == IF ln <= Len(v.elems) THEN SubSeq(v.elems, 1, ln) ELSE Repeat(ln)

\* H5Aread(s.id, typ.id, unsafe.Pointer(&buf)): the store is handed the
\* address of the string header, not of the characters.  What the buffer
\* holds afterwards is not defined by the program: any text of the buffer's
\* length the oracle's memory gives, the record's own text among them.
RawReadText(r, memtyp, buf, o) ==
    IF o.rc # 0 \/ ~Convertible(r.typ, memtyp)
    THEN [status |-> -1, buf |-> buf]
    ELSE [status |-> 0, buf |-> [i \in 1..Len(buf) |-> o.mem[i]]]

\* The text case of Attribute.Read, after the storage type typ is in hand.
ReadText(r, d, typ, o) ==
    LET ln == H5Aget_storage_size(r)
        buf == TextBuf(d.val, ln)
        t == RawReadText(r, typ, buf, o)
    IN  [Ret(r, d, h5err(t.status)) EXCEPT
            !.sq = 1, !.transfers = 1, !.addr = "header", !.buf = buf, !.got = t.buf,
            !.val = IF t.status # 0 THEN d.val ELSE SetString(d.val, Trim(t.buf))]

\* The slice case of Attribute.Read, after the storage type typ is in hand.
ReadSlice(r, d, typ, o) ==
    LET ln == H5Aget_storage_size(r) \div Size(typ)
        v == Resize(d.val, ln)
        t == RawRead(r, typ, DataAddr(v), v.elems, 0, o)
    IN  [Ret(r, d, h5err(t.status)) EXCEPT
            !.sq = 1, !.transfers = 1, !.addr = DataAddr(v),
            !.val = [v EXCEPT !.elems = t.cells], !.overrun = t.overrun]

\* The tail of Read and ReadSubset: the raw transfer to the address of the value
ReadValue(r, d, typ, addr, space, o) ==
    LET t == RawRead(r, typ, addr, d.val.elems, space, o)
    IN  [Ret(r, d, h5err(t.status)) EXCEPT
            !.transfers = 1, !.addr = addr,
            !.val = [d.val EXCEPT !.elems = t.cells], !.overrun = t.overrun]

\* a call that obtained one storage-type handle and closed it on return
\* (defer typ.Close())
Scoped(out) == [out EXCEPT !.opened = @ + 1, !.closed = @ + 1]

\* a call that obtained one storage-type handle and did not close it
Leaked(out) == [out EXCEPT !.opened = @ + 1]

\* a validation that lets every numeric type pass for every other
MismatchOfClass(v, typ) == (v.kind = "string") # (GoType(typ) = "string")

\* The validation of Attribute.Read (h5a.go): the destination's element type
\* is not the in-process type of the attribute's on-disk type.
Mismatch(v, typ) == v.kind # GoType(typ)

\* Attribute.Read of h5a.go: the attribute's type is queried, and closed on
\* return, at every level of the pointer chain; each shape is validated
\* against it.
RECURSIVE AttributeRead(_, _, _)
AttributeRead(r, d, o) ==
    IF NotPtrOrNil(d) THEN Ret(r, d, "InvalidTarget")
    ELSE LET typ == H5get_type(r)
             v == d.val
             body ==
               IF d.depth > 1 THEN AttributeRead(r, Indirect(d), o)
               ELSE CASE v.shape = "array" ->
                           IF Len(v.elems) = 0 THEN Ret(r, d, "ok")
                           ELSE IF Mismatch(v, typ) THEN Ret(r, d, "TypeMismatch")
                           ELSE ReadValue(r, d, typ, "value", 0, o)
                      [] v.shape = "string" ->
                           IF Mismatch(v, typ) THEN Ret(r, d, "TypeMismatch")
                           ELSE ReadText(r, d, typ, o)
                      [] v.shape = "slice" ->
                           IF Mismatch(v, typ) THEN Ret(r, d, "TypeMismatch")
                           ELSE ReadSlice(r, d, typ, o)
                      [] OTHER ->
                           IF Mismatch(v, typ) THEN Ret(r, d, "TypeMismatch")
                           ELSE ReadValue(r, d, typ, "value", 0, o)
         IN  Scoped([body EXCEPT !.tq = @ + 1])

\* The tail of Read (part_000) and ReadSubset: defer typ.Close(), the error
\* of the derivation returned before any transfer, the raw transfer otherwise.
ReadDerived(r, d, addr, space, o) ==
    LET dt == NewDataTypeFromType(d.val.kind)
    IN  IF dt.err THEN Ret(r, d, "UnsupportedType")
        ELSE Scoped(ReadValue(r, d, dt.typ, addr, space, o))

\* Attribute.Read of part_000: the storage type is derived from the
\* destination's type; the text case returns before the deferred Close is
\* registered; the slice case uses typ.Size() before the error is looked at.
RECURSIVE AttributeReadPart0(_, _, _)
AttributeReadPart0(r, d, o) ==
    IF NotPtrOrNil(d) THEN Ret(r, d, "InvalidTarget")
    ELSE IF d.depth > 1 THEN AttributeReadPart0(r, Indirect(d), o)
    ELSE LET v == d.val
             dt == NewDataTypeFromType(v.kind)
         IN  CASE v.shape = "array" ->
                    IF Len(v.elems) = 0 THEN Ret(r, d, "ok")
                    ELSE ReadDerived(r, d, "value", 0, o)
               [] v.shape = "string" -> Leaked(ReadText(r, d, dt.typ, o))
               [] v.shape = "slice" ->
                    IF dt.err THEN Ret(r, d, "panic")
                    ELSE Scoped(ReadSlice(r, d, dt.typ, o))
               [] OTHER -> ReadDerived(r, d, "value", 0, o)

\* Dataset.ReadSubset: the storage type is derived from the destination's
\* type, the address is that of the value, of the slice's backing store or
\* of the string's characters as they are; nothing is resized.
RECURSIVE DatasetReadSubset(_, _, _, _)
DatasetReadSubset(r, d, space, o) ==
    IF NotPtrOrNil(d) THEN Ret(r, d, "InvalidTarget")
    ELSE IF d.depth > 1 THEN DatasetReadSubset(r, Indirect(d), space, o)
    ELSE CASE d.val.shape = "array" -> ReadDerived(r, d, "value", space, o)
           [] d.val.shape = "slice" -> ReadDerived(r, d, DataAddr(d.val), space, o)
           [] d.val.shape = "string" -> ReadDerived(r, d, DataAddr(d.val), space, o)
           [] OTHER -> ReadDerived(r, d, "value", space, o)

\* Dataset.Read
DatasetRead(r, d, o) == DatasetReadSubset(r, d, 0, o)

\* H5Awrite(s.id, dtype.id, unsafe.Pointer(&str)): the store is handed the
\* address of the string header and follows it to the characters, which no
\* NUL ends: it takes the characters up to the first NUL of the string and of
\* the memory behind it, padded with NULs to the size of the record's text.
RawWriteText(r, memtyp, str, o) ==
    LET src(i) == IF i <= Len(str) THEN str[i] ELSE o.mem[i]
    IN  IF o.rc # 0 \/ ~Convertible(r.typ, memtyp)
        THEN [status |-> -1, disk |-> r.disk]
        ELSE [status |-> 0,
              disk |-> [i \in 1..Len(r.disk) |->
                          IF \A j \in 1..i : src(j) # 0 THEN src(i) ELSE 0]]

\* The tail of Attribute.Write: the storage type is derived from the value's
\* type and handed to the raw transfer; it is not closed.
WriteDerived(r, d, addr, o) ==
    LET dt == NewDataTypeFromType(d.val.kind)
        t == RawWrite(r, dt.typ, addr, d.val.elems, 0, o)
    IN  IF dt.err THEN Ret(r, d, "UnsupportedType")
        ELSE Leaked([Ret(r, d, h5err(t.status)) EXCEPT
                        !.transfers = 1, !.addr = addr, !.disk = t.disk,
                        !.overrun = t.overrun])

\* Attribute.Write (h5a.go and part_000 alike)
RECURSIVE AttributeWrite(_, _, _)
AttributeWrite(r, d, o) ==
    IF NotPtrOrNil(d) THEN Ret(r, d, "InvalidTarget")
    ELSE IF d.depth > 1 THEN AttributeWrite(r, Indirect(d), o)
    ELSE CASE d.val.shape = "array" -> WriteDerived(r, d, "value", o)
           [] d.val.shape = "string" ->
                LET dt == NewDataTypeFromType(d.val.kind)
                    t == RawWriteText(r, dt.typ, Visible(d.val), o)
                IN  IF dt.err THEN Ret(r, d, "UnsupportedType")
                    ELSE Leaked([Ret(r, d, h5err(t.status)) EXCEPT
                                    !.transfers = 1, !.addr = "header", !.disk = t.disk])
           [] d.val.shape = "slice" -> WriteDerived(r, d, DataAddr(d.val), o)
           [] OTHER -> WriteDerived(r, d, "value", o)

\* The address Dataset.WriteSubset resolves: reflect.Indirect once, then the
\* address of the value it finds; a pointer found there is not followed but
\* read with v.Pointer().
WriteSubsetAddr(d) ==
    CASE d.depth = 1 -> IF d.val.shape \in {"slice", "string"} THEN DataAddr(d.val)
                        ELSE "value"
      [] d.depth = 2 /\ d.isnil -> "null"
      [] d.depth = 2 -> IF d.val.shape \in {"slice", "string"} THEN "header" ELSE "value"
      [] OTHER -> "ptr"

\* the cells at the address of a write: the value's own, or none of them
\* (the transfer then reads memory that is not the value's)
CellsAt(d, addr) ==
    IF addr \in {"value", "data"} THEN d.val.elems ELSE <<>>

\* Dataset.WriteSubset: the dataset's own type is queried and closed on
\* return; v.UnsafeAddr() panics on a value that is not addressable (no
\* pointer was passed, or a nil one).
DatasetWriteSubset(r, d, space, o) ==
    LET addr == WriteSubsetAddr(d)
        t == RawWrite(r, H5get_type(r), addr, CellsAt(d, addr), space, o)
        body == IF NotPtrOrNil(d) THEN Ret(r, d, "panic")
                ELSE [Ret(r, d, h5err(t.status)) EXCEPT
                         !.transfers = 1, !.addr = addr, !.disk = t.disk,
                         !.overrun = t.overrun]
    IN  Scoped([body EXCEPT !.tq = @ + 1])

\* Dataset.Write
DatasetWrite(r, d, o) == DatasetWriteSubset(r, d, 0, o)

\* ------------------------------------------------------------ the handles
\* a Close that leaves the identifier as it is
CloseKeepingId(hh, rc) ==
    IF hh.id = 0 THEN [h |-> hh, err |-> "ok", called |-> FALSE]
    ELSE [h |-> [hh EXCEPT !.closes = @ + 1], err |-> h5err(rc), called |-> TRUE]

\* Attribute.Close: nothing on a closed handle; otherwise H5Aclose once, the
\* identifier set to 0 whatever the store answers, the store's error returned.
AttributeClose(hh, rc) ==
    IF hh.id = 0 THEN [h |-> hh, err |-> "ok", called |-> FALSE]
    ELSE [h |-> [hh EXCEPT !.id = 0, !.closes = @ + 1], err |-> h5err(rc), called |-> TRUE]

\* Attribute.finalizer: Close, and a panic on its error
AttributeFinalizer(hh, rc) ==
    LET c == AttributeClose(hh, rc)
    IN  [c EXCEPT !.err = IF c.err # "ok" THEN "panic" ELSE "ok"]

\* Dataset.Close
DatasetClose(hh, rc) ==
    IF hh.id = 0 THEN [h |-> hh, err |-> "ok", called |-> FALSE]
    ELSE [h |-> [hh EXCEPT !.id = 0, !.closes = @ + 1], err |-> h5err(rc), called |-> TRUE]

\* Dataset.finalizer
DatasetFinalizer(hh, rc) ==
    LET c == DatasetClose(hh, rc)
    IN  [c EXCEPT !.err = IF c.err # "ok" THEN "panic" ELSE "ok"]

\* ------------------------------------------------------------ the machine
NilDest == [depth |-> 0, isnil |-> FALSE, val |-> NilVal]

\* The oracles a call is tried with: the failing store, and the store that
\* succeeds, with every content of foreign memory when the call can come to
\* read it and one content otherwise.
OraclesFor(reads) ==
    {[rc |-> -1, mem |-> [i \in 1..MaxLen |-> 0]]}
    \cup [rc : {0}, mem : IF reads THEN Mems ELSE {[i \in 1..MaxLen |-> 0]}]

IsAttribute == rec.k \in {"h5a", "part0"}

\* between two calls: the caller has taken the result of the last one
Idle == [op |-> "idle", d |-> NilDest, space |-> 0, out |-> Ret(rec, NilDest, "ok"),
         idBefore |-> h.id, called |-> FALSE]

\* newAttribute, newDataset: an open handle around the record's identifier;
\* written is the value of the last successful Attribute.Write
Init ==
    /\ rec \in Records
    /\ h = [id |-> 1, closes |-> 0, finalized |-> FALSE]
    /\ openTypes = 0
    /\ written = NilVal
    /\ last = Idle

\* Read and Write are called, one call after the other, on an open handle
\* that is still reachable
Open == last.op = "idle" /\ h.id # 0 /\ ~h.finalized

\* one Read or Write call on the open handle, with its outcome
Call(op, d, space, out) ==
    /\ openTypes + out.opened - out.closed <= MaxOpen
    /\ rec' = [rec EXCEPT !.disk = out.disk]
    /\ openTypes' = openTypes + out.opened - out.closed
    /\ written' = IF op = "AttributeWrite" /\ out.res = "ok" THEN d.val ELSE written
    /\ last' = [op |-> op, d |-> d, space |-> space, out |-> out,
                idBefore |-> h.id, called |-> FALSE]
    /\ UNCHANGED h

\* one Close or finalizer run, with its outcome; nothing runs after the
\* finalizer
Closing(op, c) ==
    /\ last.op = "idle" /\ ~h.finalized
    /\ h.closes <= MaxOpen
    /\ h' = [c.h EXCEPT !.finalized = (op \in {"AttributeFinalizer", "DatasetFinalizer"})]
    /\ last' = [op |-> op, d |-> NilDest, space |-> 0, out |-> Ret(rec, NilDest, c.err),
                idBefore |-> h.id, called |-> c.called]
    /\ UNCHANGED <<rec, openTypes, written>>

\* the call has returned and the caller goes on
Return ==
    /\ last.op # "idle"
    /\ last' = Idle
    /\ UNCHANGED <<rec, h, openTypes, written>>

CallAttributeRead ==
    /\ Open
    /\ rec.k = "h5a"
    /\ \E d \in Dests : \E o \in OraclesFor(d.val.shape = "string") :
          \E out \in {AttributeRead(rec, d, o)} : Call("AttributeRead", d, 0, out)

CallAttributeReadPart0 ==
    /\ Open
    /\ rec.k = "part0"
    /\ \E d \in Dests : \E o \in OraclesFor(d.val.shape = "string") :
          \E out \in {AttributeReadPart0(rec, d, o)} : Call("AttributeRead", d, 0, out)

CallAttributeWrite ==
    /\ Open
    /\ IsAttribute
    /\ \E d \in Dests :
          \E o \in OraclesFor(d.val.shape = "string" \/ Len(d.val.elems) < Len(rec.disk)) :
             \E out \in {AttributeWrite(rec, d, o)} : Call("AttributeWrite", d, 0, out)

CallDatasetReadSubset ==
    /\ Open
    /\ rec.k = "h5d"
    /\ \E d \in Dests, space \in 1..MaxSel : space <= Len(rec.disk) /\ \E o \in OraclesFor(FALSE) :
          \E out \in {DatasetReadSubset(rec, d, space, o)} : Call("DatasetReadSubset", d, space, out)

CallDatasetRead ==
    /\ Open
    /\ rec.k = "h5d"
    /\ \E d \in Dests : \E o \in OraclesFor(FALSE) :
          \E out \in {DatasetRead(rec, d, o)} : Call("DatasetRead", d, 0, out)

CallDatasetWriteSubset ==
    /\ Open
    /\ rec.k = "h5d"
    /\ \E d \in Dests, space \in 1..MaxSel : space <= Len(rec.disk) /\
          \E o \in OraclesFor(Len(CellsAt(d, WriteSubsetAddr(d))) < space) :
             \E out \in {DatasetWriteSubset(rec, d, space, o)} : Call("DatasetWriteSubset", d, space, out)

CallDatasetWrite ==
    /\ Open
    /\ rec.k = "h5d"
    /\ \E d \in Dests :
          \E o \in OraclesFor(Len(CellsAt(d, WriteSubsetAddr(d))) < Len(rec.disk)) :
             \E out \in {DatasetWrite(rec, d, o)} : Call("DatasetWrite", d, 0, out)

CallAttributeClose ==
    /\ last.op = "idle" /\ IsAttribute
    /\ \E rc \in {0, -1} : \E c \in {AttributeClose(h, rc)} : Closing("AttributeClose", c)

RunAttributeFinalizer ==
    /\ last.op = "idle" /\ IsAttribute
    /\ \E rc \in {0, -1} : \E c \in {AttributeFinalizer(h, rc)} : Closing("AttributeFinalizer", c)

CallDatasetClose ==
    /\ last.op = "idle" /\ rec.k = "h5d"
    /\ \E rc \in {0, -1} : \E c \in {DatasetClose(h, rc)} : Closing("DatasetClose", c)

RunDatasetFinalizer ==
    /\ last.op = "idle" /\ rec.k = "h5d"
    /\ \E rc \in {0, -1} : \E c \in {DatasetFinalizer(h, rc)} : Closing("DatasetFinalizer", c)

Next ==
    \/ CallAttributeRead
    \/ CallAttributeReadPart0
    \/ CallAttributeWrite
    \/ CallDatasetReadSubset
    \/ CallDatasetRead
    \/ CallDatasetWriteSubset
    \/ CallDatasetWrite
    \/ CallAttributeClose
    \/ RunAttributeFinalizer
    \/ CallDatasetClose
    \/ RunDatasetFinalizer
    \/ Return

Spec == Init /\ [][Next]_vars

\* ------------------------------------------------------------- the claims
ReadOps == {"AttributeRead", "DatasetRead", "DatasetReadSubset"}
CloseOps == {"AttributeClose", "AttributeFinalizer", "DatasetClose", "DatasetFinalizer"}

\* the call reached a value behind its pointers
Reached == last.d.depth >= 1 /\ ~last.d.isnil

\* the record was created for the value x: x's storage type, x's shape
CreatedFor(r, x) ==
    /\ GoType(r.typ) = x.kind
    /\ IF x.shape = "string" THEN Len(r.disk) >= x.len ELSE Len(r.disk) = x.len

\* C1: round trip.  After a successful Attribute.Write(&x) on an attribute
\* created for x, a successful Attribute.Read(&y) with y the zero value of
\* x's type leaves y equal to x (for a text: x without the NULs at its ends).
C1_RoundTrip ==
    (/\ last.op = "AttributeRead" /\ last.out.res = "ok"
     /\ written # NilVal /\ CreatedFor(rec, written)
     /\ last.d = [depth |-> 1, isnil |-> FALSE, val |-> Zero(written)])
    => Visible(last.out.val) =
          (IF written.shape = "string" THEN Trim(Visible(written)) ELSE Visible(written))

\* C2: after every Read and Write call no storage-type handle obtained by a
\* call is open.
C2_NoOpenTypes == openTypes = 0

\* C3: the store's close is invoked at most once per handle, and exactly
\* once as soon as Close or the finalizer has run; the first Close on an open
\* handle invokes it and zeroes the identifier whatever the store answers;
\* a Close or finalizer on a closed handle returns nil without the store.
C3_CloseOnce ==
    /\ h.closes <= 1
    /\ h.closes = 1 <=> h.id = 0
    /\ last.op \in CloseOps =>
          /\ h.id = 0 /\ h.closes = 1
          /\ last.idBefore # 0 => last.called
          /\ last.idBefore = 0 => ~last.called /\ last.out.res = "ok"

\* the finalizer ran after an explicit Close and did not reach the store
C3_Witness ==
    /\ last.op = "AttributeFinalizer" /\ last.idBefore = 0
    /\ ~last.called /\ h.closes = 1 /\ h.finalized

\* C4: a successful Attribute.Read into a slice whose element type is the
\* attribute's leaves it with length storage size / element size; it keeps
\* the backing store when the capacity covers that count and has a fresh one
\* of exactly that count otherwise; the transfer filled the final backing
\* store and went nowhere else.
C4_SliceLength ==
    (/\ last.op = "AttributeRead" /\ last.out.res = "ok" /\ Reached
     /\ last.d.val.shape = "slice" /\ last.d.val.kind = GoType(rec.typ))
    => LET n == H5Aget_storage_size(rec) \div Size(rec.typ)
           v0 == last.d.val
           v1 == last.out.val
       IN  /\ v1.len = n
           /\ Len(v0.elems) >= n => v1.bid = v0.bid /\ Len(v1.elems) = Len(v0.elems)
           /\ Len(v0.elems) < n => v1.bid = 2 /\ Len(v1.elems) = n
           /\ Visible(v1) = rec.disk
           /\ ~last.out.overrun

\* a read of more elements than the destination's capacity, and a read of
\* fewer than its length into the backing store it had
C4_Witness ==
    /\ last.op = "AttributeRead" /\ last.out.res = "ok" /\ Reached
    /\ last.d.val.shape = "slice" /\ last.d.val.kind = GoType(rec.typ)
    /\ Len(rec.disk) = MaxCount /\ Len(last.d.val.elems) < MaxCount
    /\ last.d.val.len > 0 /\ last.out.val.len = MaxCount /\ last.out.val.bid = 2

\* C5: a successful Dataset.Read into a slice of length 0 whose element type
\* is the dataset's leaves it holding the dataset's elements in order, the
\* transfer within its storage.
C5_ReadEmptySlice ==
    (/\ last.op = "DatasetRead" /\ last.out.res = "ok" /\ Reached
     /\ last.d.val.shape = "slice" /\ last.d.val.len = 0
     /\ last.d.val.kind = GoType(rec.typ))
    => Visible(last.out.val) = rec.disk /\ ~last.out.overrun

\* s is t with NULs, and nothing else, before and after it
PaddingOf(s, t) ==
    \E i \in 0..Len(s) :
       /\ i + Len(t) <= Len(s)
       /\ \A j \in 1..Len(s) :
             IF j > i /\ j <= i + Len(t) THEN s[j] = t[j - i] ELSE s[j] = 0

QueriesBeforeNil(k, d) == IF k = "h5a" /\ d.depth >= 2 THEN d.depth - 1 ELSE 0

\* C7 as stated: a Read handed no pointer, or a chain ending in a nil pointer,
\* returns InvalidTarget without a query of the type or the storage size,
\* without a transfer, and leaves the caller's data alone.
C7_InvalidTargetNoQuery ==
    (last.op \in ReadOps /\ (last.d.depth = 0 \/ last.d.isnil))
    => /\ last.out.res = "InvalidTarget"
       /\ last.out.tq = 0 /\ last.out.sq = 0 /\ last.out.opened = 0
       /\ last.out.transfers = 0 /\ last.out.val = last.d.val

\* C7 amended: the same, but Attribute.Read of h5a.go has queried, and closed
\* again, the attribute's type once for every pointer it followed before the
\* nil one.
C7_InvalidTarget ==
    (last.op \in ReadOps /\ (last.d.depth = 0 \/ last.d.isnil))
    => /\ last.out.res = "InvalidTarget"
       /\ last.out.tq = QueriesBeforeNil(rec.k, last.d)
       /\ last.out.opened = last.out.tq /\ last.out.closed = last.out.tq
       /\ last.out.sq = 0
       /\ last.out.transfers = 0 /\ last.out.val = last.d.val

\* a pointer to a nil pointer handed to Attribute.Read of h5a.go
C7_Witness ==
    /\ last.op = "AttributeRead" /\ rec.k = "h5a"
    /\ last.d.depth = 2 /\ last.d.isnil
    /\ last.out.res = "InvalidTarget" /\ last.out.tq = 1

\* C8 as stated: Attribute.Read of h5a.go, reaching a destination whose
\* element type is not the attribute's, returns TypeMismatch without a
\* transfer and leaves the destination as it was.
C8_MismatchAlways ==
    (/\ last.op = "AttributeRead" /\ rec.k = "h5a" /\ Reached
     /\ last.d.val.kind # GoType(rec.typ))
    => /\ last.out.res = "TypeMismatch"
       /\ last.out.transfers = 0 /\ last.out.val = last.d.val

\* C8 amended: the same for every destination but a zero-length array, which
\* returns success before the validation, also without a transfer and
\* unchanged.
C8_Mismatch ==
    (/\ last.op = "AttributeRead" /\ rec.k = "h5a" /\ Reached
     /\ last.d.val.kind # GoType(rec.typ))
    => /\ last.out.res =
             (IF last.d.val.shape = "array" /\ Len(last.d.val.elems) = 0
              THEN "ok" ELSE "TypeMismatch")
       /\ last.out.transfers = 0 /\ last.out.sq = 0
       /\ last.out.val = last.d.val

\* a slice of one numeric type refused on an attribute of the other, neither
\* resized nor reallocated
C8_Witness ==
    /\ last.op = "AttributeRead" /\ rec.k = "h5a" /\ Reached
    /\ last.d.val.shape = "slice" /\ last.d.val.kind = "float64"
    /\ GoType(rec.typ) = "int32" /\ Len(rec.disk) > Len(last.d.val.elems)
    /\ last.out.res = "TypeMismatch" /\ last.out.val = last.d.val

\* C9: a Read reaching a zero-length array returns success without a raw
\* transfer and leaves it unchanged.
C9_EmptyArray ==
    (/\ last.op \in ReadOps /\ Reached
     /\ last.d.val.shape = "array" /\ Len(last.d.val.elems) = 0)
    => /\ last.out.res = "ok" /\ last.out.transfers = 0
       /\ last.out.val = last.d.val

\* the call on a direct pointer to the value of the last call
Direct ==
    LET d == [last.d EXCEPT !.depth = 1]
        o == [rc |-> 0, mem |-> [i \in 1..MaxLen |-> 0]]
    IN  CASE last.op = "AttributeRead" /\ rec.k = "h5a" -> AttributeRead(rec, d, o)
          [] last.op = "AttributeRead" -> AttributeReadPart0(rec, d, o)
          [] last.op = "AttributeWrite" -> AttributeWrite(rec, d, o)
          [] last.op \in {"DatasetRead", "DatasetReadSubset"} ->
                DatasetReadSubset(rec, d, last.space, o)
          [] OTHER -> DatasetWriteSubset(rec, d, last.space, o)

\* C10: a Read or Write through a chain of two or more pointers to a value
\* invokes the raw transfer as often as the call on a direct pointer does, at
\* most once, and with the same address: that of the value, never that of a
\* pointer of the chain.
C10_PointerChain ==
    (last.op \in ReadOps \cup {"AttributeWrite", "DatasetWrite", "DatasetWriteSubset"}
     /\ last.d.depth >= 2 /\ ~last.d.isnil)
    => /\ last.out.transfers <= 1
       /\ last.out.transfers = Direct.transfers
       /\ last.out.addr = Direct.addr
       /\ last.out.addr # "ptr"

====
